---------------------------- MODULE Spec2Model ----------------------------
(***************************************************************************)
(* A model of asconfig (src/asconfig.c): the ALSA capability scan          *)
(* (scancards) that fills the playback and capture list stores, and the    *)
(* generator (print_asoundrc) that writes ~/.asoundrc from the selected    *)
(* records and the option widgets.                                         *)
(*                                                                         *)
(* The ALSA library and GTK are outside the repository.  The hardware is   *)
(* an input: a machine is a sequence of cards, each a sequence of PCM      *)
(* devices with the outcome of every library call made on it.  The         *)
(* artifact is kept as the sequence of configuration blocks the fprintf    *)
(* calls write; informative comment lines other than the header are left   *)
(* out.                                                                    *)
(***************************************************************************)
EXTENDS Integers, Sequences, FiniteSets, TLC

VARIABLES
    hwPlayback,             \* the machine as ALSA presents it for SND_PCM_STREAM_PLAYBACK
    hwCapture,              \* the machine as ALSA presents it for SND_PCM_STREAM_CAPTURE
    playbackStore,          \* GtkListStore behind deviceTreeview.playbackTreeview
    captureStore,           \* GtkListStore behind deviceTreeview.captureTreeview
    playbackSel,            \* selected row of the playback tree view, 0 = none
    captureSel,             \* selected row of the capture tree view, 0 = none
    resampler,              \* active entry of asconfigControls.resampler
    playbackInterface,      \* active entry of asconfigControls.playbackInterface
    captureInterface,       \* active entry of asconfigControls.captureInterface
    streamSwitch,           \* asconfigControls.streamSwitch is on
    streamDefault,          \* asconfigControls.streamDefault is ticked
    streamDefaultSensitive, \* asconfigControls.streamDefault accepts input
    asoundrc,               \* ~/.asoundrc: [exists, content]
    lastSave                \* what the last print_asoundrc call did

vars == <<hwPlayback, hwCapture, playbackStore, captureStore, playbackSel,
          captureSel, resampler, playbackInterface, captureInterface,
          streamSwitch, streamDefault, streamDefaultSensitive, asoundrc,
          lastSave>>

hwVars == <<hwPlayback, hwCapture>>
storeVars == <<playbackStore, captureStore, playbackSel, captureSel>>
controlVars == <<resampler, playbackInterface, captureInterface, streamSwitch,
                 streamDefault, streamDefaultSensitive>>
fileVars == <<asoundrc, lastSave>>

----------------------------------------------------------------------------
(* Configuration block of the source, lines 24-52.                         *)

ASCONFIG_DEFAULT_RATE == 48000
ASCONFIG_DEFAULT_FORMAT_NAME == "S16_LE"
ASCONFIG_DEFAULT_FORMAT == "S16_LE"
ASCONFIG_DEFAULT_CHANNELS == 2
ASCONFIG_DEFAULT_RESAMPLER == 1
ASCONFIG_DEFAULT_PLAYBACK_INTERFACE == 1
ASCONFIG_DEFAULT_CAPTURE_INTERFACE == 1
ASCONFIG_STREAM_INPUT_FORMAT == "raw"
ASCONFIG_STREAM_COMMAND == "| lame ... | ezstream"

playbackInterfaceTypes == <<"hw", "plug", "dmix">>
captureInterfaceTypes == <<"hw", "plug", "dsnoop">>
resamplers == <<"speexrate", "speexrate_medium", "speexrate_best">>

\* A char* that is NULL, and the value of a G_TYPE_UINT column never set.
NULL == "(null)"
UNSET == 0

----------------------------------------------------------------------------
(* Bounds of the model.                                                    *)

\* Channel counts a device may report run over 1..MaxChannels.
MaxChannels == 3

\* PCM devices of one card, in the machines of several cards.
MaxDevices == 2

\* Sample rates a device may support.
RateValues == {8000, 44100, 48000, 96000}

\* Sample formats in the order of snd_pcm_format_t (U8 = 1, S16_LE = 2,
\* S24_LE = 6), the order in which getSampleFormats visits them.
FormatOrder == <<"U8", "S16_LE", "S24_LE">>
FormatValues == {FormatOrder[i] : i \in 1..Len(FormatOrder)}

\* The value found in the uninitialised local 'direction' (line 140) when
\* its address is handed to snd_pcm_hw_params_set_rate_near (line 219).
DirectionValues == {-1, 0, 1}

----------------------------------------------------------------------------
(* The hardware, as the ALSA calls of scancards see it.                    *)

MaxOf(S) == CHOOSE x \in S : \A y \in S : y <= x
MinOf(S) == CHOOSE x \in S : \A y \in S : x <= y

\* A device that opens and answers snd_pcm_hw_params_any.
FreeDevice(rates, fmask, minCh, maxCh, dir, nearFails) ==
    [pcmInfo |-> TRUE, open |-> "OK", any |-> TRUE, rates |-> rates,
     fmask |-> fmask, min_ch |-> minCh, max_ch |-> maxCh,
     direction |-> dir, nearFails |-> nearFails]

\* A device on which a call before the capability queries fails: no
\* capability is ever read from it.
FailedDevice(pcmInfo, open, any) ==
    [pcmInfo |-> pcmInfo, open |-> open, any |-> any, rates |-> {},
     fmask |-> {}, min_ch |-> 0, max_ch |-> 0, direction |-> 0,
     nearFails |-> FALSE]

NoStreamDevice == FailedDevice(FALSE, "OK", TRUE)  \* snd_ctl_pcm_info fails
BusyDevice == FailedDevice(TRUE, "EBUSY", TRUE)    \* snd_pcm_open: -EBUSY
BrokenDevice == FailedDevice(TRUE, "EOTHER", TRUE) \* snd_pcm_open: other error
MuteDevice == FailedDevice(TRUE, "OK", FALSE)      \* snd_pcm_hw_params_any fails

FailedDevices == {NoStreamDevice, BusyDevice, BrokenDevice, MuteDevice}

\* Every capability a free device may report: a non-empty rate set, a
\* non-empty format mask and a channel interval, with both outcomes of the
\* rate negotiation call and every value of the direction hint.
FreeDevices(rateSets, fmasks, chans) ==
    {FreeDevice(r, f, c[1], c[2], d, n) :
        r \in rateSets, f \in fmasks, c \in chans,
        d \in DirectionValues, n \in BOOLEAN}

AllRateSets == (SUBSET RateValues) \ {{}}
AllFormatMasks == (SUBSET FormatValues) \ {{}}
AllChannelRanges == {c \in (1..MaxChannels) \X (1..MaxChannels) : c[1] <= c[2]}

AllDevices == FailedDevices \cup
              FreeDevices(AllRateSets, AllFormatMasks, AllChannelRanges)

\* A card: snd_ctl_open and snd_ctl_card_info outcomes and its devices.
Card(ctlOpen, cardInfo, devs) ==
    [ctlOpen |-> ctlOpen, cardInfo |-> cardInfo, devs |-> devs]

\* A card that plays at several rates, one that plays at 44100 Hz only.
MultiRateDevice ==
    FreeDevice({44100, 48000}, {"S16_LE", "S24_LE"}, ASCONFIG_DEFAULT_CHANNELS,
               ASCONFIG_DEFAULT_CHANNELS, 0, FALSE)
SingleRateDevice ==
    FreeDevice({44100}, {"S24_LE"}, 1, 1, 0, FALSE)

\* One device of each way through the device loop of lines 175-255.
DeviceKinds ==
    {MultiRateDevice, BusyDevice, BrokenDevice, MuteDevice, NoStreamDevice}

\* Machines of two cards with up to MaxDevices devices each; a card may
\* fail snd_ctl_open or snd_ctl_card_info.
DeviceLists == UNION {[1..n -> DeviceKinds] : n \in 0..MaxDevices}
ScanCards ==
    {Card(TRUE, TRUE, devs) : devs \in DeviceLists}
    \cup {Card(FALSE, TRUE, <<MultiRateDevice>>), Card(TRUE, FALSE, <<MultiRateDevice>>)}
ScanMachines == {<<c1, c2>> : c1 \in ScanCards, c2 \in ScanCards}

----------------------------------------------------------------------------
(* scancards, lines 134-260.                                               *)

\* getSampleFormats (lines 110-123): the names of the formats of the mask,
\* in ascending format number.
getSampleFormats(fmask) ==
    SelectSeq(FormatOrder, LAMBDA f : f \in fmask)

\* A rate call that rejects every target, as an exact snd_pcm_hw_params_set_rate
\* on a card without the target rate would: the caller then takes the minimum.
set_rate_exact(rates, target, dir, fails) ==
    [err |-> target \notin rates \/ fails, val |-> target]

\* snd_pcm_hw_params_set_rate_near(pcm, pars, &defaultRate, &direction),
\* line 219, after alsa-lib's snd_pcm_hw_param_set_near: the space is cut to
\* the rates at or above the target (above it, for a positive direction
\* hint); if that leaves one rate it is taken; otherwise the nearer of that
\* bound and the largest rate below the target is taken, the hint deciding
\* by half a unit.  'fails' is the call returning an error.
set_rate_near(rates, target, dir, fails) ==
    LET Up == {r \in rates : IF dir > 0 THEN r > target ELSE r >= target}
        Lo == {r \in rates : IF dir > 0 THEN r <= target ELSE r < target}
    IN  IF fails THEN [err |-> TRUE, val |-> target]
        ELSE IF Up = {} THEN [err |-> FALSE, val |-> MaxOf(Lo)]
        ELSE IF Cardinality(Up) = 1 \/ Lo = {}
             THEN [err |-> FALSE, val |-> MinOf(Up)]
        ELSE IF MinOf(Up) = target /\ dir = 0
             THEN [err |-> FALSE, val |-> target]
        ELSE IF 2 * (target - MaxOf(Lo)) + dir < 2 * (MinOf(Up) - target) - dir
             THEN [err |-> FALSE, val |-> MaxOf(Lo)]
             ELSE [err |-> FALSE, val |-> MinOf(Up)]

\* snd_pcm_hw_params_set_format(pcm, pars, ASCONFIG_DEFAULT_FORMAT), line 223.
set_format(fmask, format) == format \in fmask

\* snd_pcm_hw_params_set_channels(pcm, pars, ASCONFIG_DEFAULT_CHANNELS), line 229.
set_channels(minCh, maxCh, channels) == minCh <= channels /\ channels <= maxCh

\* The row inserted at lines 186-194: the card and device columns are set,
\* every other column keeps its initial value.
InsertedRow(card, dev) ==
    [in_use |-> NULL, card |-> card, dev |-> dev,
     min_ch |-> UNSET, max_ch |-> UNSET, min_sr |-> UNSET, max_sr |-> UNSET,
     formats |-> <<>>, defaultRate |-> UNSET, defaultFormat |-> NULL,
     defaultChannels |-> UNSET]

\* Lines 218-221: the default rate.
NegotiateRate(d) ==
    LET near == set_rate_near(d.rates, ASCONFIG_DEFAULT_RATE, d.direction, d.nearFails)
    IN  IF near.err THEN MinOf(d.rates) ELSE near.val

\* Lines 223-227: the default format.
NegotiateFormat(d) ==
    IF set_format(d.fmask, ASCONFIG_DEFAULT_FORMAT)
    THEN ASCONFIG_DEFAULT_FORMAT_NAME
    ELSE getSampleFormats(d.fmask)[1]

\* The channel default without the test of line 229.
NegotiateChannelsUntested(d) == ASCONFIG_DEFAULT_CHANNELS

\* Lines 229-233: the default channel count.
NegotiateChannels(d) ==
    IF set_channels(d.min_ch, d.max_ch, ASCONFIG_DEFAULT_CHANNELS)
    THEN ASCONFIG_DEFAULT_CHANNELS
    ELSE d.min_ch

\* Lines 207-248: the capability columns of a device that answered
\* snd_pcm_hw_params_any.
ProbedRow(card, dev, d) ==
    [in_use |-> NULL, card |-> card, dev |-> dev,
     min_ch |-> d.min_ch, max_ch |-> d.max_ch,
     min_sr |-> MinOf(d.rates), max_sr |-> MaxOf(d.rates),
     formats |-> getSampleFormats(d.fmask),
     defaultRate |-> NegotiateRate(d),
     defaultFormat |-> NegotiateFormat(d),
     defaultChannels |-> NegotiateChannels(d)]

\* Lines 186-254: the row of one device whose snd_ctl_pcm_info succeeded.
DeviceRow(card, dev, d) ==
    IF d.open = "EBUSY" THEN [InsertedRow(card, dev) EXCEPT !.in_use = "*"]
    ELSE IF d.open # "OK" THEN [InsertedRow(card, dev) EXCEPT !.in_use = "E"]
    ELSE IF d.any THEN ProbedRow(card, dev, d)
    ELSE [InsertedRow(card, dev) EXCEPT !.in_use = "E"]

\* The device loop leaving at the first device that does not open (a break
\* for the continue of line 204).
RECURSIVE ScanDevicesUntilBusy(_, _, _)
ScanDevicesUntilBusy(card, devs, i) ==
    IF i > Len(devs) THEN <<>>
    ELSE IF ~devs[i].pcmInfo THEN ScanDevicesUntilBusy(card, devs, i + 1)
    ELSE IF devs[i].open # "OK" THEN <<DeviceRow(card, i - 1, devs[i])>>
    ELSE <<DeviceRow(card, i - 1, devs[i])>> \o ScanDevicesUntilBusy(card, devs, i + 1)

\* Lines 175-255: the device loop of one card, from device index i on.
RECURSIVE ScanDevices(_, _, _)
ScanDevices(card, devs, i) ==
    IF i > Len(devs) THEN <<>>
    ELSE IF ~devs[i].pcmInfo THEN ScanDevices(card, devs, i + 1)
    ELSE <<DeviceRow(card, i - 1, devs[i])>> \o ScanDevices(card, devs, i + 1)

\* Lines 156-259: the card loop, from card index c on.  A card whose control
\* interface does not open, or does not answer, is skipped.
RECURSIVE ScanCardsFrom(_, _)
ScanCardsFrom(machine, c) ==
    IF c > Len(machine) THEN <<>>
    ELSE IF ~machine[c].ctlOpen \/ ~machine[c].cardInfo
         THEN ScanCardsFrom(machine, c + 1)
    ELSE ScanDevices(c - 1, machine[c].devs, 1) \o ScanCardsFrom(machine, c + 1)

\* scancards(stream, store) on an empty store: the rows it appends.
scancards(machine) == ScanCardsFrom(machine, 1)

----------------------------------------------------------------------------
(* The artifact: the blocks print_asoundrc writes, in order.               *)

\* One block of the file.  kind is "comment", "pcm" (pcm.!name { type ... }),
\* "force" (pcm.+name { ... }), "rate_converter", "ctl" or "default"
\* (pcm.!default); a field a block does not have is "" or -1.
EmptyBlock ==
    [kind |-> "", name |-> "", type |-> "", slave |-> "", capture |-> "",
     format |-> "", channels |-> -1, rate |-> -1, card |-> -1, device |-> -1,
     ipc_key |-> -1, file |-> ""]

\* Line 400.
HeaderBlock ==
    [EmptyBlock EXCEPT !.kind = "comment",
                       !.name = "# User asoundrc file written by asconfig"]

\* Lines 440-445 and 480-485: a hardware stage.
HwBlock(pcmName, card, dev) ==
    [EmptyBlock EXCEPT !.kind = "pcm", !.name = pcmName, !.type = "hw",
                       !.card = card, !.device = dev]

\* add_dsnoop, lines 263-284.
add_dsnoop(pcmName, slavePCM, defaultFormat, defaultChannels, defaultRate) ==
    [EmptyBlock EXCEPT !.kind = "pcm", !.name = pcmName, !.type = "dsnoop",
                       !.ipc_key = 17022021, !.slave = slavePCM,
                       !.format = defaultFormat, !.rate = defaultRate,
                       !.channels = defaultChannels]

\* add_dmixStream, lines 286-306: the softvol stage, its control on card 0.
add_dmixStream(pcmName, dmixPCM, streamPCM) ==
    [EmptyBlock EXCEPT !.kind = "pcm", !.name = pcmName, !.type = "softvol",
                       !.slave = dmixPCM, !.card = 0]

\* add_streamOut, lines 308-318.
add_streamOut(pcmName, streamFormat, streamSlavePCM, streamCommand) ==
    [EmptyBlock EXCEPT !.kind = "pcm", !.name = pcmName, !.type = "file",
                       !.format = streamFormat, !.slave = streamSlavePCM,
                       !.file = streamCommand]

\* add_plug, lines 320-328.
add_plug(pcmName, slavePCM) ==
    [EmptyBlock EXCEPT !.kind = "pcm", !.name = pcmName, !.type = "plug",
                       !.slave = slavePCM]

\* add_dmix, lines 330-343.
add_dmix(pcmName, slavePCM, defaultFormat, defaultChannels, defaultRate) ==
    [EmptyBlock EXCEPT !.kind = "pcm", !.name = pcmName, !.type = "dmix",
                       !.ipc_key = 16022021, !.slave = slavePCM,
                       !.format = defaultFormat, !.channels = defaultChannels,
                       !.rate = defaultRate]

\* add_default, lines 345-355: an alias of the playback pcm, or an asym
\* stage when there is a capture pcm.
add_default(playbackPCM, capturePCM) ==
    IF capturePCM = NULL
    THEN [EmptyBlock EXCEPT !.kind = "default", !.name = "default",
                            !.slave = playbackPCM]
    ELSE [EmptyBlock EXCEPT !.kind = "default", !.name = "default",
                            !.type = "asym", !.slave = playbackPCM,
                            !.capture = capturePCM]

\* Lines 415-417 and 434-436: a column left unset falls back to the
\* hard-coded default.
RateOrDefault(rate) == IF rate = UNSET THEN ASCONFIG_DEFAULT_RATE ELSE rate
FormatOrDefault(format) == IF format = NULL THEN ASCONFIG_DEFAULT_FORMAT_NAME ELSE format
ChannelsOrDefault(channels) == IF channels = UNSET THEN ASCONFIG_DEFAULT_CHANNELS ELSE channels

\* Lines 426-446: captureInterfaceType stays -1 and defaultCapturePCM NULL
\* unless a capture row is selected.
CaptureInterfaceType(sel, iface) == IF sel # 0 THEN iface ELSE -1

\* Lines 438-445: the hardware stage of the selected capture row.
CaptureHwBlocks(store, sel) ==
    IF sel # 0 THEN <<HwBlock("capture", store[sel].card, store[sel].dev)>>
    ELSE <<>>

\* The capture switch with case 2 leaving out add_dsnoop.
CaptureModeBlocksNoSnoop(type, row) ==
    CASE type = 1 -> <<add_plug("matchCapture", "capture")>>
      [] type = 2 -> <<add_plug("matchCapture", "snoopCapture")>>
      [] OTHER -> <<>>

\* Lines 448-476: the capture stages above the hardware stage.
CaptureModeBlocks(type, row) ==
    CASE type = 1 -> <<add_plug("matchCapture", "capture")>>
      [] type = 2 -> <<add_plug("matchCapture", "snoopCapture"),
                       add_dsnoop("snoopCapture", "capture",
                                  FormatOrDefault(row.defaultFormat),
                                  ChannelsOrDefault(row.defaultChannels),
                                  RateOrDefault(row.defaultRate))>>
      [] OTHER -> <<>>

\* defaultCapturePCM after the switch of lines 448-476.
DefaultCapturePCM(sel, type) ==
    IF sel = 0 THEN NULL
    ELSE IF type = 1 \/ type = 2 THEN "matchCapture"
    ELSE "capture"

\* The forced parameters without the test of line 487.
ForceBlocksAlways(row) ==
    <<[EmptyBlock EXCEPT !.kind = "force", !.name = "playback",
                         !.format = FormatOrDefault(row.defaultFormat),
                         !.channels = ChannelsOrDefault(row.defaultChannels),
                         !.rate = RateOrDefault(row.defaultRate)]>>

\* Lines 487-495: the forced parameters of a single-rate card.
ForceBlocks(row) ==
    IF row.min_sr > 0 /\ row.min_sr = row.max_sr
    THEN <<[EmptyBlock EXCEPT !.kind = "force", !.name = "playback",
                              !.format = FormatOrDefault(row.defaultFormat),
                              !.channels = ChannelsOrDefault(row.defaultChannels),
                              !.rate = RateOrDefault(row.defaultRate)]>>
    ELSE <<>>

\* The mixer controls bound to card 0, as add_dmixStream binds its control.
CommonBlocksCardZero(row, res) ==
    <<[EmptyBlock EXCEPT !.kind = "rate_converter", !.name = resamplers[res + 1]],
      [EmptyBlock EXCEPT !.kind = "ctl", !.name = "default", !.type = "hw",
                         !.card = 0]>>

\* Lines 497-506: the rate converter and the mixer controls.
CommonBlocks(row, res) ==
    <<[EmptyBlock EXCEPT !.kind = "rate_converter", !.name = resamplers[res + 1]],
      [EmptyBlock EXCEPT !.kind = "ctl", !.name = "default", !.type = "hw",
                         !.card = row.card]>>

\* Lines 515-523 and 531-539: the stream tap of the hw and plug cases.
StreamTapBlocks(switchState, isDefault) ==
    IF switchState
    THEN <<add_streamOut("stream", ASCONFIG_STREAM_INPUT_FORMAT,
                         IF isDefault THEN "playback" ELSE "null",
                         ASCONFIG_STREAM_COMMAND)>>
    ELSE <<>>

\* defaultPlaybackPCM set to "stream" whenever the tap is default, the
\* test of the switch state (lines 515, 531) left out.
TappedPlaybackPCMUnswitched(switchState, isDefault) ==
    IF isDefault THEN "stream" ELSE "playback"

\* defaultPlaybackPCM after lines 515-523 (531-539).
TappedPlaybackPCM(switchState, isDefault) ==
    IF switchState /\ isDefault THEN "stream" ELSE "playback"

\* case 0 with the tap's slave always the hardware stage.
HwCaseTapOnHardware(switchState, isDefault, capturePCM) ==
    (IF switchState
     THEN <<add_streamOut("stream", ASCONFIG_STREAM_INPUT_FORMAT, "playback",
                          ASCONFIG_STREAM_COMMAND)>>
     ELSE <<>>)
    \o <<add_default(TappedPlaybackPCM(switchState, isDefault), capturePCM)>>

\* case 0 (hw), lines 510-525.
HwCase(switchState, isDefault, capturePCM) ==
    StreamTapBlocks(switchState, isDefault)
    \o <<add_default(TappedPlaybackPCM(switchState, isDefault), capturePCM)>>

\* case 1 with "match" always on the hardware stage.
PlugCaseMatchOnHardware(switchState, isDefault, capturePCM) ==
    StreamTapBlocks(switchState, isDefault)
    \o <<add_plug("match", "playback"),
         add_default("match", capturePCM)>>

\* case 1 (plug), lines 526-542.
PlugCase(switchState, isDefault, capturePCM) ==
    StreamTapBlocks(switchState, isDefault)
    \o <<add_plug("match", TappedPlaybackPCM(switchState, isDefault)),
         add_default("match", capturePCM)>>

\* case 2 with the default on the tap when the tap is default, as cases 0
\* and 1 have it.
DmixCaseStreamDefault(switchState, isDefault, capturePCM, row) ==
    (IF switchState
     THEN <<add_dmixStream("streamvol", "mix", "stream"),
            add_streamOut("stream", ASCONFIG_STREAM_INPUT_FORMAT, "streamvol",
                          ASCONFIG_STREAM_COMMAND)>>
     ELSE <<>>)
    \o <<add_plug("match", "mix"),
         add_dmix("mix", "playback", FormatOrDefault(row.defaultFormat),
                  ChannelsOrDefault(row.defaultChannels),
                  RateOrDefault(row.defaultRate)),
         add_default(IF switchState /\ isDefault THEN "stream" ELSE "match",
                     capturePCM)>>

\* case 2 (dmix), lines 543-554.
DmixCase(switchState, isDefault, capturePCM, row) ==
    (IF switchState
     THEN <<add_dmixStream("streamvol", "mix", "stream"),
            add_streamOut("stream", ASCONFIG_STREAM_INPUT_FORMAT, "streamvol",
                          ASCONFIG_STREAM_COMMAND)>>
     ELSE <<>>)
    \o <<add_plug("match", "mix"),
         add_dmix("mix", "playback", FormatOrDefault(row.defaultFormat),
                  ChannelsOrDefault(row.defaultChannels),
                  RateOrDefault(row.defaultRate)),
         add_default("match", capturePCM)>>

\* The default case without its add_default.
UnknownCaseNoDefault(capturePCM) == <<>>

\* default, lines 555-558: a warning, then the default on the hardware stage.
UnknownCase(capturePCM) == <<add_default("playback", capturePCM)>>

\* The switch of lines 509-559.
PlaybackModeBlocks(type, switchState, isDefault, capturePCM, row) ==
    CASE type = 0 -> HwCase(switchState, isDefault, capturePCM)
      [] type = 1 -> PlugCase(switchState, isDefault, capturePCM)
      [] type = 2 -> DmixCase(switchState, isDefault, capturePCM, row)
      [] OTHER -> UnknownCase(capturePCM)

\* Everything written between fopen (line 395) and fclose (line 560).
Artifact(pStore, pSel, cStore, cSel, res, pType, cIface, switchState, isDefault) ==
    LET row == pStore[pSel]
        cType == CaptureInterfaceType(cSel, cIface)
        capturePCM == DefaultCapturePCM(cSel, cType)
    IN  <<HeaderBlock>>
        \o CaptureHwBlocks(cStore, cSel)
        \o (IF cSel # 0 THEN CaptureModeBlocks(cType, cStore[cSel]) ELSE <<>>)
        \o <<HwBlock("playback", row.card, row.dev)>>
        \o ForceBlocks(row)
        \o CommonBlocks(row, res)
        \o PlaybackModeBlocks(pType, switchState, isDefault, capturePCM, row)

----------------------------------------------------------------------------
(* print_asoundrc, lines 357-566.                                          *)

\* What gtk_dialog_run can return from show_actionbox (lines 568-594): one
\* of the two buttons, or GTK_RESPONSE_DELETE_EVENT when the dialog is
\* closed without pressing either.
Responses == {"GTK_RESPONSE_YES", "GTK_RESPONSE_NO", "GTK_RESPONSE_DELETE_EVENT"}

NoFile == [exists |-> FALSE, content |-> <<>>]
FileWith(content) == [exists |-> TRUE, content |-> content]

\* A ~/.asoundrc that asconfig did not write.
ForeignFile == FileWith(<<[EmptyBlock EXCEPT !.kind = "comment", !.name = "# hand-written"]>>)

\* What fopen finds at the path: no file, a file asconfig wrote (it starts
\* with the line of line 400), or some other file.
FileKind(file) ==
    IF ~file.exists THEN "absent"
    ELSE IF file.content # <<>> /\ file.content[1] = HeaderBlock THEN "artifact"
    ELSE "foreign"

\* fopen(asoundrc, "a"): the content is kept and written after.
fopen_a(file) == FileWith(file.content)

\* fopen(asoundrc, "w"), line 395: the file is created, or truncated to
\* zero length.
fopen_w(file) == FileWith(<<>>)

\* The fprintf calls of lines 400-558 on the open file.
fprintf(file, blocks) == [file EXCEPT !.content = @ \o blocks]

\* The switch of lines 509-559 without the break of the default case, the
\* function returning there.
ReachesFcloseKnownOnly(type) ==
    CASE type = 0 -> TRUE
      [] type = 1 -> TRUE
      [] type = 2 -> TRUE
      [] OTHER -> FALSE

\* Every case of the switch of lines 509-559 ends in a break, and nothing
\* between fopen (395) and fclose (560) returns.
ReachesFclose(type) ==
    CASE type = 0 -> TRUE
      [] type = 1 -> TRUE
      [] type = 2 -> TRUE
      [] OTHER -> TRUE

\* The record of one call: which exit it took, the message box shown, whether
\* the overwrite dialog ran and its answer, whether the file was opened and
\* closed, whether g_warning was called, and what the file was when it was
\* opened (NULL if it was not).
SaveRecord(outcome, msgbox, asked, response, opened, closed, warned, over) ==
    [outcome |-> outcome, msgbox |-> msgbox, asked |-> asked,
     response |-> response, opened |-> opened, closed |-> closed,
     warned |-> warned, over |-> over]

NoSave == SaveRecord("none", NULL, FALSE, NULL, FALSE, FALSE, FALSE, NULL)

\* Line 377: gtk_tree_selection_get_selected on the playback view.
PlaybackSelected(sel) == sel # 0

\* The test of line 382 for the busy flag only.
PlaybackBlockedBusyOnly(row) == row.in_use = "*"

\* Lines 381-382: the selected row's COLUMN_IN_USE is not NULL.
PlaybackBlocked(row) == row.in_use # NULL

\* Line 389: g_file_test(asoundrc, G_FILE_TEST_EXISTS).
FileExists(file) == file.exists

\* Line 391: the only answer that stops the save.
OverwriteRefused(response) == response = "GTK_RESPONSE_NO"

\* Lines 555-556: the playback interface type is none of the three cases.
UnknownInterface(type) == type \notin {0, 1, 2}

\* One call of print_asoundrc; response is the answer the overwrite dialog
\* would get, fopenOk whether fopen(asoundrc, "w") would succeed.
print_asoundrc(response, fopenOk) ==
    LET asked == FileExists(asoundrc)
        answer == IF asked THEN response ELSE NULL
    IN  /\ IF ~PlaybackSelected(playbackSel)
           THEN /\ lastSave' = SaveRecord("no_playback", "No selected playback device",
                                          FALSE, NULL, FALSE, FALSE, FALSE, NULL)
                /\ asoundrc' = asoundrc
           ELSE IF PlaybackBlocked(playbackStore[playbackSel])
           THEN /\ lastSave' = SaveRecord("in_use", "The selected playback device is currently in use",
                                          FALSE, NULL, FALSE, FALSE, FALSE, NULL)
                /\ asoundrc' = asoundrc
           ELSE IF asked /\ OverwriteRefused(response)
           THEN /\ lastSave' = SaveRecord("declined", NULL, TRUE, response,
                                          FALSE, FALSE, FALSE, NULL)
                /\ asoundrc' = asoundrc
           ELSE IF ~fopenOk
           THEN /\ lastSave' = SaveRecord("open_error", "Error opening .asoundrc for writing",
                                          asked, answer, FALSE, FALSE, FALSE, NULL)
                /\ asoundrc' = asoundrc
           ELSE /\ lastSave' = SaveRecord("written", NULL, asked, answer, TRUE,
                                          ReachesFclose(playbackInterface),
                                          UnknownInterface(playbackInterface),
                                          FileKind(asoundrc))
                /\ asoundrc' = fprintf(fopen_w(asoundrc),
                                       Artifact(playbackStore, playbackSel,
                                                captureStore, captureSel,
                                                resampler, playbackInterface,
                                                captureInterface, streamSwitch,
                                                streamDefault))
        /\ UNCHANGED <<hwVars, storeVars, controlVars>>

\* save_clicked, lines 622-624.
save_clicked ==
    \E response \in Responses, fopenOk \in BOOLEAN :
        print_asoundrc(response, fopenOk)

----------------------------------------------------------------------------
(* The scan as the program runs it.                                        *)

\* scancards(stream, store) on any store: gtk_list_store_insert_with_values
\* at position -1 (line 186) appends each row after those the store has.
ScanInto(store, machine) == store \o scancards(machine)

\* A refresh that leaves the rows of the store in place.
gtk_list_store_keep(store) == store

\* gtk_list_store_clear, lines 614 and 618: every row is removed.
gtk_list_store_clear(store) == <<>>

\* addTreeview, lines 776-812: a new, empty store is scanned into.
addTreeviewPlayback ==
    /\ playbackStore = <<>>
    /\ playbackStore' = ScanInto(<<>>, hwPlayback)
    /\ UNCHANGED <<hwVars, captureStore, playbackSel, captureSel, controlVars, fileVars>>

addTreeviewCapture ==
    /\ captureStore = <<>>
    /\ captureStore' = ScanInto(<<>>, hwCapture)
    /\ UNCHANGED <<hwVars, playbackStore, playbackSel, captureSel, controlVars, fileVars>>

\* refresh_clicked, lines 612-620: both stores are cleared, which drops the
\* selections, and scanned again.
refresh_clicked ==
    /\ playbackStore' = ScanInto(gtk_list_store_clear(playbackStore), hwPlayback)
    /\ captureStore' = ScanInto(gtk_list_store_clear(captureStore), hwCapture)
    /\ playbackSel' = 0
    /\ captureSel' = 0
    /\ UNCHANGED <<hwVars, controlVars, fileVars>>

----------------------------------------------------------------------------
(* Specification of the scan: the machine is drawn from every machine of   *)
(* one card with one PCM device, for one of the two streams, and scanned.  *)

SingleDeviceMachines(devices) ==
    {<<Card(TRUE, TRUE, <<d>>)>> : d \in devices}

ProbeMachines ==
    SingleDeviceMachines(AllDevices)
    \cup {<<Card(FALSE, TRUE, <<BusyDevice>>)>>, <<Card(TRUE, FALSE, <<BusyDevice>>)>>}
    \cup ScanMachines

InitProbe ==
    /\ \E m \in ProbeMachines :
          \/ hwPlayback = m /\ hwCapture = <<>>
          \/ hwPlayback = <<>> /\ hwCapture = m
    /\ playbackStore = <<>>
    /\ captureStore = <<>>
    /\ playbackSel = 0
    /\ captureSel = 0
    /\ resampler = ASCONFIG_DEFAULT_RESAMPLER
    /\ playbackInterface = ASCONFIG_DEFAULT_PLAYBACK_INTERFACE
    /\ captureInterface = ASCONFIG_DEFAULT_CAPTURE_INTERFACE
    /\ streamSwitch = FALSE
    /\ streamDefault = FALSE
    /\ streamDefaultSensitive = FALSE
    /\ asoundrc = NoFile
    /\ lastSave = NoSave

NextProbe == addTreeviewPlayback \/ addTreeviewCapture \/ refresh_clicked

SpecProbe == InitProbe /\ [][NextProbe]_vars

----------------------------------------------------------------------------
(* Specification of the refresh: the program has started on a machine      *)
(* whose devices are all free; then devices are taken and released by      *)
(* other processes, fail, or are unplugged, and the user clicks Refresh.   *)

\* One card with MaxDevices devices, all free.
FreeMachine == <<Card(TRUE, TRUE, [i \in 1..MaxDevices |-> MultiRateDevice])>>

\* One card with one device, free.
FreeCaptureMachine == <<Card(TRUE, TRUE, <<MultiRateDevice>>)>>

\* Another process or the kernel changes what one device answers.
deviceChanges(stream, i, d) ==
    /\ IF stream = "playback"
       THEN /\ i <= Len(hwPlayback[1].devs)
            /\ hwPlayback[1].devs[i] # d
            /\ hwPlayback' = [hwPlayback EXCEPT ![1].devs[i] = d]
            /\ UNCHANGED hwCapture
       ELSE /\ i <= Len(hwCapture[1].devs)
            /\ hwCapture[1].devs[i] # d
            /\ hwCapture' = [hwCapture EXCEPT ![1].devs[i] = d]
            /\ UNCHANGED hwPlayback
    /\ UNCHANGED <<storeVars, controlVars, fileVars>>

InitRefresh ==
    /\ hwPlayback = FreeMachine
    /\ hwCapture = FreeCaptureMachine
    /\ playbackStore = ScanInto(<<>>, hwPlayback)
    /\ captureStore = ScanInto(<<>>, hwCapture)
    /\ playbackSel = 0
    /\ captureSel = 0
    /\ resampler = ASCONFIG_DEFAULT_RESAMPLER
    /\ playbackInterface = ASCONFIG_DEFAULT_PLAYBACK_INTERFACE
    /\ captureInterface = ASCONFIG_DEFAULT_CAPTURE_INTERFACE
    /\ streamSwitch = FALSE
    /\ streamDefault = FALSE
    /\ streamDefaultSensitive = FALSE
    /\ asoundrc = NoFile
    /\ lastSave = NoSave

NextRefresh ==
    \/ refresh_clicked
    \/ \E stream \in {"playback", "capture"}, i \in 1..MaxDevices, d \in DeviceKinds :
          deviceChanges(stream, i, d)

SpecRefresh == InitRefresh /\ [][NextRefresh]_vars

----------------------------------------------------------------------------
(* Specification of the generator: print_asoundrc on every input it reads. *)
(* The stores hold what a scan of some machine left there; the option      *)
(* widgets take every value gtk_combo_box_get_active, gtk_switch_get_active*)
(* and gtk_toggle_button_get_active can return.                            *)

\* Playback devices: every rate set, hint and negotiation outcome, with a
\* card that takes the preferred format and channel count and one that
\* takes neither.
GenPlaybackDevices ==
    {BusyDevice, BrokenDevice, MuteDevice}
    \cup FreeDevices(AllRateSets, {{"S16_LE", "S24_LE"}},
                     {<<ASCONFIG_DEFAULT_CHANNELS, ASCONFIG_DEFAULT_CHANNELS>>})
    \cup FreeDevices(AllRateSets, {{"U8"}}, {<<1, 1>>})

GenCaptureDevices ==
    {BusyDevice,
     FreeDevice({44100, 48000}, {"S16_LE"}, 1, ASCONFIG_DEFAULT_CHANNELS, 0, FALSE)}

\* A machine whose first card does not open and whose second card has the
\* playback device second: its row is card 1, device 1.
SecondCardMachines ==
    {<<Card(FALSE, TRUE, <<>>), Card(TRUE, TRUE, <<NoStreamDevice, MultiRateDevice>>)>>}

GenPlaybackStores ==
    {scancards(m) : m \in SingleDeviceMachines(GenPlaybackDevices) \cup SecondCardMachines}
GenCaptureStores == {<<>>} \cup {scancards(m) : m \in SingleDeviceMachines(GenCaptureDevices)}

InitGen ==
    /\ hwPlayback = <<>>
    /\ hwCapture = <<>>
    /\ playbackStore \in GenPlaybackStores
    /\ captureStore \in GenCaptureStores
    /\ playbackSel \in 0..Len(playbackStore)
    /\ captureSel = Len(captureStore)
    /\ resampler \in 0..(Len(resamplers) - 1)
    /\ playbackInterface \in -1..(Len(playbackInterfaceTypes) - 1)
    /\ captureInterface \in 0..(Len(captureInterfaceTypes) - 1)
    /\ streamSwitch \in BOOLEAN
    /\ streamDefault \in BOOLEAN
    /\ streamDefaultSensitive = (streamSwitch /\ playbackInterface \in {0, 1})
    /\ asoundrc \in {NoFile, ForeignFile}
    /\ lastSave = NoSave

NextGen == save_clicked

SpecGen == InitGen /\ [][NextGen]_vars

----------------------------------------------------------------------------
(* The controls, lines 722-771.                                            *)

\* A streamSwitchState whose default case locks the stream-default check
\* without clearing it.
streamSwitchStateLockOnly(state, iface, isDefault) ==
    LET playbackInterfaceType == IF state THEN iface ELSE -1
    IN  IF playbackInterfaceType = 0 \/ playbackInterfaceType = 1
        THEN <<isDefault, TRUE>>
        ELSE <<isDefault, FALSE>>

\* streamSwitchState (lines 722-744) called with 'state': the stream-default
\* check is unlocked for hw and plug with the switch on, and otherwise
\* cleared and locked.  The result is <<streamDefault, sensitive>>.
streamSwitchState(state, iface, isDefault) ==
    LET playbackInterfaceType == IF state THEN iface ELSE -1
    IN  IF playbackInterfaceType = 0 \/ playbackInterfaceType = 1
        THEN <<isDefault, TRUE>>
        ELSE <<FALSE, FALSE>>

\* The "state-set" signal of the stream switch (line 845): the handler runs
\* with the new state, returns FALSE, and GTK then sets the state.
streamSwitchSet ==
    LET after == streamSwitchState(~streamSwitch, playbackInterface, streamDefault)
    IN  /\ streamSwitch' = ~streamSwitch
        /\ streamDefault' = after[1]
        /\ streamDefaultSensitive' = after[2]
        /\ UNCHANGED <<hwVars, storeVars, resampler, playbackInterface,
                       captureInterface, fileVars>>

\* playbackInterfaceChanged (lines 746-748), on the "changed" signal of the
\* playback interface combo (line 844), with the entry the user picked.
playbackInterfaceChanged(entry) ==
    LET after == streamSwitchState(streamSwitch, entry, streamDefault)
    IN  /\ entry # playbackInterface
        /\ playbackInterface' = entry
        /\ streamDefault' = after[1]
        /\ streamDefaultSensitive' = after[2]
        /\ UNCHANGED <<hwVars, storeVars, resampler, captureInterface,
                       streamSwitch, fileVars>>

\* The user ticks or clears the stream-default check, which GTK lets them
\* do only while the widget is sensitive.
streamDefaultToggled ==
    /\ streamDefaultSensitive
    /\ streamDefault' = ~streamDefault
    /\ UNCHANGED <<hwVars, storeVars, resampler, playbackInterface,
                   captureInterface, streamSwitch, streamDefaultSensitive, fileVars>>

\* The user picks another entry of the capture interface combo; no handler
\* is connected to it.
captureInterfacePicked(entry) ==
    /\ entry # captureInterface
    /\ captureInterface' = entry
    /\ UNCHANGED <<hwVars, storeVars, resampler, playbackInterface,
                   streamSwitch, streamDefault, streamDefaultSensitive, fileVars>>

\* The user selects a row of a tree view, or clears the selection (row 0).
playbackRowSelected(row) ==
    /\ row # playbackSel
    /\ playbackSel' = row
    /\ UNCHANGED <<hwVars, playbackStore, captureStore, captureSel, controlVars, fileVars>>

captureRowSelected(row) ==
    /\ row # captureSel
    /\ captureSel' = row
    /\ UNCHANGED <<hwVars, playbackStore, captureStore, playbackSel, controlVars, fileVars>>

----------------------------------------------------------------------------
(* Specification of the program: main (lines 814-855) scans both streams   *)
(* and sets the controls up; then the user works the tool bar, the two     *)
(* tree views and the interface and stream controls.  The resampler combo, *)
(* which no handler watches and only line 419 reads, stays at its default. *)

ProgPlaybackMachines ==
    {<<Card(TRUE, TRUE, <<MultiRateDevice, BusyDevice>>)>>,
     <<Card(TRUE, TRUE, <<BrokenDevice, SingleRateDevice>>)>>}

ProgCaptureMachines ==
    {<<>>, <<Card(TRUE, TRUE, <<MultiRateDevice, BusyDevice>>)>>}

\* gtk_combo_box_get_active of a combo with an active entry.
ComboEntries(entries) == 0..(Len(entries) - 1)

Init ==
    /\ hwPlayback \in ProgPlaybackMachines
    /\ hwCapture \in ProgCaptureMachines
    /\ playbackStore = scancards(hwPlayback)
    /\ captureStore = scancards(hwCapture)
    /\ playbackSel = 0
    /\ captureSel = 0
    /\ resampler = ASCONFIG_DEFAULT_RESAMPLER
    /\ playbackInterface = ASCONFIG_DEFAULT_PLAYBACK_INTERFACE
    /\ captureInterface = ASCONFIG_DEFAULT_CAPTURE_INTERFACE
    /\ streamSwitch = FALSE
    /\ streamDefault = streamSwitchState(FALSE, ASCONFIG_DEFAULT_PLAYBACK_INTERFACE, FALSE)[1]
    /\ streamDefaultSensitive = streamSwitchState(FALSE, ASCONFIG_DEFAULT_PLAYBACK_INTERFACE, FALSE)[2]
    /\ asoundrc \in {NoFile, ForeignFile}
    /\ lastSave = NoSave

Next ==
    \/ refresh_clicked
    \/ save_clicked
    \/ streamSwitchSet
    \/ streamDefaultToggled
    \/ \E entry \in ComboEntries(playbackInterfaceTypes) : playbackInterfaceChanged(entry)
    \/ \E entry \in ComboEntries(captureInterfaceTypes) : captureInterfacePicked(entry)
    \/ \E row \in 0..Len(playbackStore) : playbackRowSelected(row)
    \/ \E row \in 0..Len(captureStore) : captureRowSelected(row)

Spec == Init /\ [][Next]_vars

----------------------------------------------------------------------------
(* Reading the stores and the artifact, for the properties below.          *)

\* The device a row was probed from.
DeviceOf(machine, row) == machine[row.card + 1].devs[row.dev + 1]

\* Every row of either store, with the device it was probed from.
ScannedPairs ==
    {<<playbackStore[i], DeviceOf(hwPlayback, playbackStore[i])>> :
        i \in 1..Len(playbackStore)}
    \cup {<<captureStore[i], DeviceOf(hwCapture, captureStore[i])>> :
        i \in 1..Len(captureStore)}

FreePairs == {p \in ScannedPairs : p[1].in_use = NULL}

RateSupported(d) == ASCONFIG_DEFAULT_RATE \in d.rates
FormatSupported(d) == ASCONFIG_DEFAULT_FORMAT \in d.fmask
ChannelsSupported(d) ==
    d.min_ch <= ASCONFIG_DEFAULT_CHANNELS /\ ASCONFIG_DEFAULT_CHANNELS <= d.max_ch

\* The last call of print_asoundrc wrote the file.
Written == lastSave.outcome = "written"
Content == asoundrc.content
\* ~/.asoundrc holds an artifact that print_asoundrc wrote.
ArtifactOnDisk == asoundrc.exists /\ Content[1] = HeaderBlock
SelectedPlayback == playbackStore[playbackSel]

Stages(name) ==
    {i \in 1..Len(Content) : Content[i].kind = "pcm" /\ Content[i].name = name}
HasStage(name, type, slave) ==
    /\ Cardinality(Stages(name)) = 1
    /\ \A i \in Stages(name) : Content[i].type = type /\ Content[i].slave = slave
NoStage(name) == Stages(name) = {}
Defaults == {i \in 1..Len(Content) : Content[i].kind = "default"}
DefaultPlaybackIs(name) ==
    /\ Cardinality(Defaults) = 1
    /\ \A i \in Defaults : Content[i].slave = name
Forced == {i \in 1..Len(Content) : Content[i].kind = "force"}

----------------------------------------------------------------------------
(* C1: a save with no playback row selected, or with a selected playback   *)
(* row flagged busy ("*") or error ("E"), shows a message and returns: no   *)
(* overwrite dialog, no fopen, and ~/.asoundrc as it was before the call.  *)
C1_BlockedSaveWritesNothing ==
    [][(\/ playbackSel = 0
        \/ SelectedPlayback.in_use \in {"*", "E"})
       => /\ asoundrc' = asoundrc
          /\ lastSave' # lastSave
                => /\ lastSave'.outcome \in {"no_playback", "in_use"}
                   /\ lastSave'.msgbox # NULL
                   /\ ~lastSave'.asked
                   /\ ~lastSave'.opened]_vars

C1_Witness ==
    /\ lastSave.outcome = "in_use"
    /\ playbackSel # 0
    /\ SelectedPlayback.in_use = "E"
    /\ asoundrc = ForeignFile

(* C2: when ~/.asoundrc exists, the save overwrites it only after the      *)
(* answer Yes: after any other outcome of the overwrite dialog the file is *)
(* not opened and is left as it was.                                       *)
C2_OverwriteOnlyAfterYes ==
    [][(/\ lastSave' # lastSave
        /\ lastSave'.asked
        /\ lastSave'.response # "GTK_RESPONSE_YES")
       => (~lastSave'.opened /\ asoundrc' = asoundrc)]_vars

C2_Witness ==
    /\ lastSave.asked
    /\ lastSave.response = "GTK_RESPONSE_DELETE_EVENT"
    /\ lastSave.opened
    /\ ArtifactOnDisk

(* C3: the written artifact has a forced-parameter block (pcm.+playback)   *)
(* exactly when the selected playback row has min rate = max rate = R > 0, *)
(* and that block pins the rate to R.                                      *)
C3_ForcedBlockIffSingleRate ==
    Written =>
        /\ (Forced # {}) <=> (SelectedPlayback.min_sr = SelectedPlayback.max_sr
                              /\ SelectedPlayback.min_sr > 0)
        /\ Cardinality(Forced) <= 1
        /\ \A i \in Forced : /\ Content[i].name = "playback"
                             /\ Content[i].rate = SelectedPlayback.min_sr

C3_Witness ==
    /\ Written
    /\ Forced # {}
    /\ SelectedPlayback.min_sr = 44100
    /\ playbackInterface = 2

(* C4: in the hw, plug and dmix playback modes, with the stream tap on or  *)
(* off and default or not, the pcm that pcm.!default plays to is a stage   *)
(* written earlier in the same artifact.                                   *)
C4_DefaultResolvesEarlier ==
    (Written /\ playbackInterface \in {0, 1, 2}) =>
        /\ Cardinality(Defaults) = 1
        /\ \A i \in Defaults : \E j \in 1..(i - 1) :
              Content[j].kind = "pcm" /\ Content[j].name = Content[i].slave

C4_Witness ==
    /\ Written
    /\ playbackInterface = 0
    /\ streamSwitch /\ streamDefault
    /\ DefaultPlaybackIs("stream")

C7_FreeRecordsHoldSupportedDefaults ==
    \A p \in FreePairs :
        LET row == p[1]
            d == p[2]
        IN  /\ row.min_ch <= row.max_ch
            /\ row.min_sr <= row.max_sr
            /\ row.defaultRate # UNSET
            /\ row.defaultRate \in d.rates
            /\ row.min_sr <= row.defaultRate /\ row.defaultRate <= row.max_sr
            /\ row.defaultFormat # NULL
            /\ row.defaultFormat \in d.fmask
            /\ \E k \in 1..Len(row.formats) : row.formats[k] = row.defaultFormat
            /\ row.defaultChannels # UNSET
            /\ row.min_ch <= row.defaultChannels
            /\ row.defaultChannels <= row.max_ch

C7_Witness ==
    \E p \in FreePairs :
        /\ ~RateSupported(p[2]) /\ ~FormatSupported(p[2]) /\ ~ChannelsSupported(p[2])
        /\ p[2].nearFails
        /\ p[1].defaultFormat = "U8"
        /\ p[1].defaultChannels = p[1].min_ch

C9_MatchWrapsHardware ==
    (Written /\ playbackInterface = 1) =>
        /\ HasStage("match", "plug", "playback")
        /\ (streamSwitch /\ streamDefault) => HasStage("stream", "file", "match")
        /\ DefaultPlaybackIs("match")

(* C9, amended: in plug mode pcm.!default plays to "match"; the slave of   *)
(* "match" is the hardware stage "playback", except with a default stream  *)
(* tap, where it is the file stage "stream", whose slave is "playback"; a  *)
(* tap that is not default has the slave "null"; no tap, no "stream".      *)
C9_MatchWrapsTapOrHardware ==
    (Written /\ playbackInterface = 1) =>
        /\ DefaultPlaybackIs("match")
        /\ HasStage("playback", "hw", "")
        /\ HasStage("match", "plug",
                    IF streamSwitch /\ streamDefault THEN "stream" ELSE "playback")
        /\ IF streamSwitch
           THEN HasStage("stream", "file", IF streamDefault THEN "playback" ELSE "null")
           ELSE NoStage("stream")

C9_Witness ==
    /\ Written
    /\ playbackInterface = 1
    /\ streamSwitch /\ streamDefault
    /\ HasStage("match", "plug", "stream")
    /\ HasStage("stream", "file", "playback")

(* C10: in hw mode the file stage "stream" is written exactly when the     *)
(* stream tap is on; its slave is "playback" if the tap is default and     *)
(* "null" otherwise; pcm.!default plays to "stream" exactly when the tap   *)
(* is on and default, and to "playback" otherwise.                         *)
C10_HwModeTap ==
    (Written /\ playbackInterface = 0) =>
        /\ HasStage("playback", "hw", "")
        /\ IF streamSwitch
           THEN HasStage("stream", "file", IF streamDefault THEN "playback" ELSE "null")
           ELSE NoStage("stream")
        /\ DefaultPlaybackIs(IF streamSwitch /\ streamDefault THEN "stream" ELSE "playback")

C10_Witness ==
    /\ Written
    /\ playbackInterface = 0
    /\ streamSwitch /\ ~streamDefault
    /\ HasStage("stream", "file", "null")
    /\ DefaultPlaybackIs("playback")


----------------------------------------------------------------------------
(* Reading a file's content, for the properties about a save step.         *)

CaptureStageNames == {"capture", "matchCapture", "snoopCapture"}
StagesIn(content, name) ==
    {i \in 1..Len(content) : content[i].kind = "pcm" /\ content[i].name = name}
CaptureStagesIn(content) ==
    {i \in 1..Len(content) :
        content[i].kind = "pcm" /\ content[i].name \in CaptureStageNames}
DefaultsIn(content) == {i \in 1..Len(content) : content[i].kind = "default"}
CaptureClauseIn(content) == \E i \in DefaultsIn(content) : content[i].capture # ""
\* This step is a call of print_asoundrc that wrote the file.
SaveWrote == lastSave' # lastSave /\ lastSave'.outcome = "written"
CaptureSelected == captureSel # 0
SelectedCapture == captureStore[captureSel]

(* C11: a save writes capture stages, or a capture clause in pcm.!default, *)
(* only if a capture row is selected and its availability flag is free; a  *)
(* selected capture row flagged busy or error gives no capture stage.      *)
C11_CaptureOnlyIfFree ==
    [][SaveWrote =>
        ((CaptureStagesIn(asoundrc'.content) # {} \/ CaptureClauseIn(asoundrc'.content))
         => (CaptureSelected /\ SelectedCapture.in_use = NULL))]_vars

C11_Witness ==
    /\ Written
    /\ CaptureSelected
    /\ SelectedCapture.in_use = "*"
    /\ StagesIn(Content, "capture") # {}
    /\ CaptureClauseIn(Content)

StageIs(content, name, type, slave) ==
    /\ Cardinality(StagesIn(content, name)) = 1
    /\ \A i \in StagesIn(content, name) :
          content[i].type = type /\ content[i].slave = slave
CaptureReferenceIs(content, name) ==
    /\ Cardinality(DefaultsIn(content)) = 1
    /\ \A i \in DefaultsIn(content) : content[i].capture = name
\* The ipc_key add_dmix gives the playback mixer.
MixerKey == add_dmix("mix", "playback", "", 0, 0).ipc_key

(* C12: with a capture row selected, the capture reference of pcm.!default *)
(* is the endpoint of the capture mode and leads to the hardware stage     *)
(* "capture": hw -> "capture"; plug -> "matchCapture" on "capture"; dsnoop *)
(* -> "matchCapture" on "snoopCapture" on "capture", the dsnoop stage with *)
(* the row's negotiated format, rate and channels and an ipc_key other     *)
(* than the mixer's.  With no capture row selected there is no capture     *)
(* clause.                                                                 *)
C12_CaptureChain ==
    [][SaveWrote =>
        LET c == asoundrc'.content
        IN  IF ~CaptureSelected
            THEN CaptureReferenceIs(c, "") /\ CaptureStagesIn(c) = {}
            ELSE /\ StageIs(c, "capture", "hw", "")
                 /\ \A i \in StagesIn(c, "capture") :
                       /\ c[i].card = SelectedCapture.card
                       /\ c[i].device = SelectedCapture.dev
                 /\ captureInterface = 0 =>
                       /\ CaptureReferenceIs(c, "capture")
                       /\ StagesIn(c, "matchCapture") = {}
                       /\ StagesIn(c, "snoopCapture") = {}
                 /\ captureInterface = 1 =>
                       /\ CaptureReferenceIs(c, "matchCapture")
                       /\ StageIs(c, "matchCapture", "plug", "capture")
                       /\ StagesIn(c, "snoopCapture") = {}
                 /\ captureInterface = 2 =>
                       /\ CaptureReferenceIs(c, "matchCapture")
                       /\ StageIs(c, "matchCapture", "plug", "snoopCapture")
                       /\ StageIs(c, "snoopCapture", "dsnoop", "capture")
                       /\ \A i \in StagesIn(c, "snoopCapture") :
                             /\ c[i].format = SelectedCapture.defaultFormat
                             /\ c[i].rate = SelectedCapture.defaultRate
                             /\ c[i].channels = SelectedCapture.defaultChannels
                             /\ c[i].ipc_key # MixerKey]_vars

C12_Witness ==
    /\ Written
    /\ CaptureSelected
    /\ SelectedCapture.in_use = "*"
    /\ captureInterface = 2
    /\ StageIs(Content, "snoopCapture", "dsnoop", "capture")
    /\ \E i \in StagesIn(Content, "snoopCapture") :
          /\ Content[i].rate = ASCONFIG_DEFAULT_RATE
          /\ Content[i].rate # SelectedCapture.defaultRate

\* The names the blocks of the file refer to: the slave of a pcm block, the
\* playback and capture pcm of pcm.!default.
References(content) ==
    {content[i].slave : i \in {k \in 1..Len(content) :
        content[k].kind \in {"pcm", "default"} /\ content[k].slave # ""}}
    \cup {content[i].capture : i \in {k \in DefaultsIn(content) :
        content[k].capture # ""}}
Defined(content, name) == StagesIn(content, name) # {}

(* C13, as stated: in every artifact written, for every playback mode,     *)
(* capture mode, capture selection and tap setting, every slave reference  *)
(* names a stage the same artifact defines.                                *)
C13_AllSlavesDefined ==
    Written => \A name \in References(Content) : Defined(Content, name)

(* C13, amended: every slave reference names a stage the same artifact     *)
(* defines, except the slave of the file stage "stream" of an enabled,     *)
(* non-default tap in hw or plug mode: that is "null", ALSA's predefined   *)
(* null pcm, which no artifact defines.                                    *)
C13_AllSlavesDefinedOrNull ==
    Written =>
        /\ \A name \in References(Content) \ {"null"} : Defined(Content, name)
        /\ ~Defined(Content, "null")
        /\ "null" \in References(Content)
              <=> (streamSwitch /\ ~streamDefault /\ playbackInterface \in {0, 1})
        /\ \A i \in 1..Len(Content) :
              (Content[i].kind \in {"pcm", "default"} /\ Content[i].slave = "null")
              => (Content[i].name = "stream" /\ Content[i].type = "file")

C13_Witness ==
    /\ Written
    /\ playbackInterface = 1
    /\ streamSwitch /\ ~streamDefault
    /\ CaptureSelected /\ captureInterface = 2
    /\ References(Content) = {"null", "playback", "match", "snoopCapture",
                              "capture", "matchCapture"}

\* The artifact of the rows selected and the options set now.
ArtifactNow ==
    Artifact(playbackStore, playbackSel, captureStore, captureSel, resampler,
             playbackInterface, captureInterface, streamSwitch, streamDefault)

BlocksOfKind(content, kind) == {i \in 1..Len(content) : content[i].kind = kind}

(* C15: for a free playback row with min rate < max rate, hw mode, no      *)
(* capture row and the stream switch off, the artifact has exactly one     *)
(* stage, the hardware stage "playback" of the row's card and device, one  *)
(* rate converter line naming the selected resampler, one ctl block on the *)
(* row's card, and a pcm.!default on "playback" with no capture clause.    *)
C15_DirectModeScenario ==
    (/\ Written
     /\ SelectedPlayback.min_sr < SelectedPlayback.max_sr
     /\ playbackInterface = 0
     /\ ~CaptureSelected
     /\ ~streamSwitch)
    => /\ Cardinality(BlocksOfKind(Content, "pcm")) = 1
       /\ StageIs(Content, "playback", "hw", "")
       /\ \A i \in StagesIn(Content, "playback") :
             /\ Content[i].card = SelectedPlayback.card
             /\ Content[i].device = SelectedPlayback.dev
       /\ BlocksOfKind(Content, "force") = {}
       /\ Cardinality(BlocksOfKind(Content, "rate_converter")) = 1
       /\ \A i \in BlocksOfKind(Content, "rate_converter") :
             Content[i].name = resamplers[resampler + 1]
       /\ Cardinality(BlocksOfKind(Content, "ctl")) = 1
       /\ \A i \in BlocksOfKind(Content, "ctl") :
             Content[i].card = SelectedPlayback.card
       /\ Cardinality(DefaultsIn(Content)) = 1
       /\ \A i \in DefaultsIn(Content) :
             /\ Content[i].slave = "playback"
             /\ Content[i].type = ""
             /\ Content[i].capture = ""
       /\ Len(Content) = 5

C15_Witness ==
    /\ Written
    /\ SelectedPlayback.card = 1 /\ SelectedPlayback.dev = 1
    /\ SelectedPlayback.min_sr = 44100 /\ SelectedPlayback.max_sr = 48000
    /\ playbackInterface = 0
    /\ ~CaptureSelected
    /\ ~streamSwitch
    /\ resampler = 2
    /\ Len(Content) = 5

\* The devices of a machine whose snd_ctl_pcm_info succeeds on a card that
\* opens and answers, as <<card, device>> index pairs.
Answering(machine) ==
    {p \in (1..Len(machine)) \X (1..(MaxDevices + 1)) :
        /\ machine[p[1]].ctlOpen /\ machine[p[1]].cardInfo
        /\ p[2] <= Len(machine[p[1]].devs)
        /\ machine[p[1]].devs[p[2]].pcmInfo}
\* The flag the claim gives a device.
FlagOf(d) ==
    IF d.open = "EBUSY" THEN "*"
    ELSE IF d.open # "OK" \/ ~d.any THEN "E"
    ELSE NULL
RowsOf(store, p) ==
    {k \in 1..Len(store) : store[k].card = p[1] - 1 /\ store[k].dev = p[2] - 1}
Catalogued(machine, store) ==
    /\ Len(store) = Cardinality(Answering(machine))
    /\ \A p \in Answering(machine) :
          /\ Cardinality(RowsOf(store, p)) = 1
          /\ \A k \in RowsOf(store, p) :
                store[k].in_use = FlagOf(machine[p[1]].devs[p[2]])

(* C16: a scan gives every device whose info query succeeds exactly one    *)
(* record, flagged "*" iff its open failed with EBUSY, "E" iff its open    *)
(* failed otherwise or its parameter query failed, and free otherwise; the *)
(* devices and cards after a busy or failed device are recorded too.       *)
C16_ScanContinues ==
    /\ playbackStore # <<>> => Catalogued(hwPlayback, playbackStore)
    /\ captureStore # <<>> => Catalogued(hwCapture, captureStore)

C16_Witness ==
    /\ Len(hwPlayback) = 2
    /\ hwPlayback[1].devs = <<BusyDevice, MuteDevice>>
    /\ hwPlayback[2].devs = <<BrokenDevice, MultiRateDevice>>
    /\ Len(playbackStore) = 4
    /\ playbackStore[1].in_use = "*" /\ playbackStore[2].in_use = "E"
    /\ playbackStore[3].in_use = "E" /\ playbackStore[4].in_use = NULL
    /\ playbackStore[4].card = 1 /\ playbackStore[4].dev = 1

InScanOrder(store) ==
    \A j, k \in 1..Len(store) :
        j < k => \/ store[j].card < store[k].card
                 \/ store[j].card = store[k].card /\ store[j].dev < store[k].dev

(* C18: after a refresh each store holds exactly the rows of the scan that *)
(* refresh made of its stream, in the order of enumeration: no row of an   *)
(* earlier scan is left and no device has two rows.                        *)
C18_RefreshReplacesCatalog ==
    [][UNCHANGED hwVars =>
        /\ playbackStore' = scancards(hwPlayback)
        /\ captureStore' = scancards(hwCapture)
        /\ Catalogued(hwPlayback, playbackStore')
        /\ Catalogued(hwCapture, captureStore')
        /\ InScanOrder(playbackStore') /\ InScanOrder(captureStore')]_vars

C18_Witness ==
    /\ hwPlayback[1].devs[1] = NoStreamDevice
    /\ hwPlayback[1].devs[2] = BusyDevice
    /\ Len(playbackStore) = MaxDevices - 1
    /\ playbackStore[1].dev = 1
    /\ playbackStore[1].in_use = "*"
    /\ hwCapture[1].devs[1] = BrokenDevice
    /\ Len(captureStore) = 1
    /\ captureStore[1].in_use = "E"

\* The artifact the current selection and controls give with the
\* stream-default check cleared.
ArtifactNotDefault ==
    Artifact(playbackStore, playbackSel, captureStore, captureSel, resampler,
             playbackInterface, captureInterface, streamSwitch, FALSE)

(* C19: whatever the user does, the stream-default check is set only with  *)
(* the stream switch on and the playback interface hw or plug; with the    *)
(* switch off or the interface dmix it is cleared and locked; and every    *)
(* save that writes in dmix mode writes with the check cleared.            *)
C19_StreamDefaultGuarded ==
    /\ [](streamDefault => streamSwitch /\ playbackInterface \in {0, 1})
    /\ []((~streamSwitch \/ playbackInterface = 2)
            => ~streamDefault /\ ~streamDefaultSensitive)
    /\ [](streamSwitch /\ playbackInterface \in {0, 1} => streamDefaultSensitive)
    /\ [][SaveWrote /\ playbackInterface = 2
            => ~streamDefault /\ asoundrc' = FileWith(ArtifactNotDefault)]_vars

C19_Witness ==
    /\ streamSwitch
    /\ playbackInterface = 2
    /\ ~streamDefault
    /\ ~streamDefaultSensitive
    /\ lastSave.outcome = "written"
    /\ asoundrc = FileWith(ArtifactNotDefault)
    /\ \E b \in 1..Len(asoundrc.content) : asoundrc.content[b].name = "stream"

=============================================================================
